---- MODULE Spec2Model ----
(***************************************************************************)
(* Model of the Deribit options collector (src/collector.py):              *)
(* DeribitDataCollector.get_instruments / get_orderbook /                  *)
(* collect_options_data / get_daily_filename / save_to_parquet /           *)
(* load_data and the periodic_collection loop.                             *)
(*                                                                         *)
(* Conventions.                                                            *)
(*   - A Python value that may be None is a sequence of length 0 or 1:     *)
(*     None is <<>>, a value v is <<v>>.                                   *)
(*   - A Python dict is a function whose DOMAIN is the set of its keys.    *)
(*   - JSON numbers are integers; the float division by 2 of line 120 is   *)
(*     kept exact as the rational [num, den].                              *)
(*   - datetime.now() is read from the environment clock `today` (an       *)
(*     ordinal day number); only its calendar date is ever used by the     *)
(*     code that the model covers (strftime('%Y%m%d')).  A datetime passed *)
(*     to load_data is [date |-> <<y, m, d>>, tod |-> time of day].        *)
(***************************************************************************)
EXTENDS Integers, Sequences, FiniteSets, TLC

\* ------------------------------------------------------------------ bounds
MaxIter == 3
MaxInstr == 2
MaxDay == 1
MaxLoadDay == 2

\* ----------------------------------------------------------- Python values
None == <<>>

Some(v) == <<v>>

\* (a variant: dict.get(k, 0))
GetDefaultZero(d, k) == IF k \in DOMAIN d THEN Some(d[k]) ELSE Some(0)

\* dict.get(k): the value, or None when the key is absent
Get(d, k) == IF k \in DOMAIN d THEN Some(d[k]) ELSE None

\* dict.get(k, default)
GetD(d, k, default) == IF k \in DOMAIN d THEN d[k] ELSE default

\* truth value of an optional number: None and 0 are falsy
Truthy(o) == o # None /\ o[1] # 0

\* truth value of a dict: the empty dict is falsy
DictTruthy(d) == DOMAIN d # {}

\* x / 2 in float arithmetic, kept exact
Half(x) == [num |-> x, den |-> 2]

\* orderbook.get(outer, {}).get(k)
GetNested(d, outer, k) == IF outer \in DOMAIN d THEN Get(d[outer], k) ELSE None

\* ------------------------------------------------------------- the schema
PlainFields ==
  {"mark_price", "last_price", "mark_iv", "bid_iv", "ask_iv",
   "open_interest", "underlying_price", "underlying_index"}

GreekFields == {"delta", "gamma", "vega", "theta", "rho"}

\* 'bid_price': orderbook['best_bid_price'] if orderbook.get('best_bid_price') else None
SidePrice(d, k) == IF Truthy(Get(d, k)) THEN Some(d[k]) ELSE None

\* (a variant: `or` in place of `and` in the condition of mid_price)
MidPriceOneSide(d) ==
  IF Truthy(Get(d, "best_bid_price")) \/ Truthy(Get(d, "best_ask_price"))
  THEN Some(Half(GetD(d, "best_bid_price", 0) + GetD(d, "best_ask_price", 0)))
  ELSE None

\* 'mid_price': (get(bid, 0) + get(ask, 0)) / 2 if get(bid) and get(ask) else None
MidPrice(d) ==
  IF Truthy(Get(d, "best_bid_price")) /\ Truthy(Get(d, "best_ask_price"))
  THEN Some(Half(GetD(d, "best_bid_price", 0) + GetD(d, "best_ask_price", 0)))
  ELSE None

\* the record literal of collect_options_data
Record(instrument, orderbook, now) ==
  [timestamp |-> now,
   instrument_name |-> instrument.instrument_name,
   expiration_timestamp |-> instrument.expiration_timestamp,
   strike |-> instrument.strike,
   option_type |-> instrument.option_type,
   mark_price |-> Get(orderbook, "mark_price"),
   last_price |-> Get(orderbook, "last_price"),
   bid_price |-> SidePrice(orderbook, "best_bid_price"),
   ask_price |-> SidePrice(orderbook, "best_ask_price"),
   mid_price |-> MidPrice(orderbook),
   delta |-> GetNested(orderbook, "greeks", "delta"),
   gamma |-> GetNested(orderbook, "greeks", "gamma"),
   vega |-> GetNested(orderbook, "greeks", "vega"),
   theta |-> GetNested(orderbook, "greeks", "theta"),
   rho |-> GetNested(orderbook, "greeks", "rho"),
   mark_iv |-> Get(orderbook, "mark_iv"),
   bid_iv |-> Get(orderbook, "bid_iv"),
   ask_iv |-> Get(orderbook, "ask_iv"),
   open_interest |-> Get(orderbook, "open_interest"),
   volume_24h |-> GetNested(orderbook, "stats", "volume"),
   underlying_price |-> Get(orderbook, "underlying_price"),
   underlying_index |-> Get(orderbook, "underlying_index")]

\* ------------------------------------------------------------------- dates
\* the calendar date <<y, m, d>> of ordinal day n; day 0 is 2023-12-30
DateOf(n) == IF 30 + n <= 31 THEN <<2023, 12, 30 + n>> ELSE <<2024, 1, n - 1>>

\* date.strftime('%Y%m%d'): eight decimal digits
Strftime(date) ==
  <<date[1] \div 1000, (date[1] \div 100) % 10, (date[1] \div 10) % 10, date[1] % 10,
    date[2] \div 10, date[2] % 10,
    date[3] \div 10, date[3] % 10>>

\* datetime.strptime(s, '%Y%m%d'): midnight of the day the digits name
Strptime(s) ==
  [date |-> <<1000 * s[1] + 100 * s[2] + 10 * s[3] + s[4], 10 * s[5] + s[6], 10 * s[7] + s[8]>>,
   tod |-> 0]

\* datetime < datetime
DtLess(a, b) ==
  \/ a.date[1] < b.date[1]
  \/ a.date[1] = b.date[1] /\ a.date[2] < b.date[2]
  \/ a.date[1] = b.date[1] /\ a.date[2] = b.date[2] /\ a.date[3] < b.date[3]
  \/ a.date = b.date /\ a.tod < b.tod

\* str < str on two strings of digits (lexicographic)
RECURSIVE StrLess(_, _)
StrLess(a, b) ==
  IF b = <<>> THEN FALSE
  ELSE IF a = <<>> THEN TRUE
  ELSE IF a[1] # b[1] THEN a[1] < b[1]
  ELSE StrLess(Tail(a), Tail(b))

\* get_daily_filename: data_dir / f'{currency}_options_{date_str}.parquet'
GetDailyFilename(currency, date) == [currency |-> currency, date_str |-> Strftime(date)]

\* ------------------------------------------------------------ the store
\* a parquet file: readable with its rows, or unreadable (truncated, no footer)
File(rows) == [readable |-> TRUE, rows |-> rows]

Corrupt == [readable |-> FALSE, rows |-> <<>>]

NoFiles == [f \in {} |-> Corrupt]

\* the directory after `name` is (re)written with `content`
WriteFile(dir, name, content) ==
  [f \in DOMAIN dir \cup {name} |-> IF f = name THEN content ELSE dir[f]]

RECURSIVE Flatten(_)
Flatten(ss) == IF ss = <<>> THEN <<>> ELSE Head(ss) \o Flatten(Tail(ss))

\* (a variant: the df.empty test never taken)
IsEmptyNever(df) == FALSE

\* df.empty
IsEmpty(df) == df = <<>>

\* (a variant: the existing rows dropped)
MergeOverwrite(existing, df) == df

\* pd.concat([existing_df, df], ignore_index=True)
Merge(existing, df) == existing \o df

\* sorted(paths) of one currency: insertion sort on the embedded date string
RECURSIVE Insert(_, _)
Insert(x, sorted) ==
  IF sorted = <<>> THEN <<x>>
  ELSE IF StrLess(x.date_str, Head(sorted).date_str) THEN <<x>> \o sorted
  ELSE <<Head(sorted)>> \o Insert(x, Tail(sorted))

SortedUnsorted(paths) == paths

RECURSIVE Sorted(_)
Sorted(paths) == IF paths = <<>> THEN <<>> ELSE Insert(Head(paths), Sorted(Tail(paths)))

\* data_dir.glob(f'{currency}_options_*.parquet'): the matching names
Glob(dir, currency) == {f \in DOMAIN dir : f.currency = currency}

\* the orders in which the directory scan can yield the names of S
Orders(S) ==
  {o \in [1..Cardinality(S) -> S] : \A a, b \in 1..Cardinality(S) : a # b => o[a] # o[b]}

\* the date filter of load_data's loop: TRUE when the file is skipped
Skipped(file, start_date, end_date) ==
  /\ start_date # None \/ end_date # None
  /\ \/ start_date # None /\ DtLess(Strptime(file.date_str), start_date[1])
     \/ end_date # None /\ DtLess(end_date[1], Strptime(file.date_str))

\* the for loop of load_data over the sorted files: the frames read, or a raise
RECURSIVE ReadAll(_, _, _, _)
ReadAll(dir, fs, start_date, end_date) ==
  IF fs = <<>> THEN [raised |-> FALSE, dfs |-> <<>>]
  ELSE IF Skipped(Head(fs), start_date, end_date)
       THEN ReadAll(dir, Tail(fs), start_date, end_date)
  ELSE IF ~dir[Head(fs)].readable THEN [raised |-> TRUE, dfs |-> <<>>]
  ELSE LET rest == ReadAll(dir, Tail(fs), start_date, end_date)
       IN  [raised |-> rest.raised,
            dfs |-> IF rest.raised THEN <<>> ELSE <<dir[Head(fs)].rows>> \o rest.dfs]

\* load_data(start_date, end_date), the directory scan yielding `order`
LoadData(dir, order, start_date, end_date) ==
  LET r == ReadAll(dir, Sorted(order), start_date, end_date)
  IN  [raised |-> r.raised, rows |-> Flatten(r.dfs)]

\* ------------------------------------------------------- bounded inputs
Currency == "BTC"

Instruments ==
  {[instrument_name |-> "BTC-C", expiration_timestamp |-> 7, strike |-> 5, option_type |-> "call"],
   [instrument_name |-> "BTC-P", expiration_timestamp |-> 7, strike |-> 5, option_type |-> "put"]}

\* the lists list_instruments can return: distinct instruments, at most MaxInstr
InstrumentLists ==
  UNION {{l \in [1..n -> Instruments] : \A a, b \in 1..n : a # b => l[a] # l[b]} : n \in 0..MaxInstr}

\* an optional number among absent, 0 and 1, and the next one round
Opt3 == {None, Some(0), Some(1)}

Rot(o) == IF o = None THEN Some(0) ELSE IF o = Some(0) THEN Some(1) ELSE None

\* the dict holding the keys of m whose optional value is present
DictOf(m) == [k \in {k \in DOMAIN m : m[k] # None} |-> m[k][1]]

GreeksDict(c) ==
  DictOf([delta |-> c, gamma |-> Rot(c), vega |-> Rot(Rot(c)), theta |-> c, rho |-> Rot(c)])

\* a get_order_book result; g = 0: no 'greeks' key, 1: {}, 2..4: GreeksDict;
\* st = 0: no 'stats' key, 1: {}, 2: volume 0, 3: volume 1
MkSnapshot(bid, ask, mark, last, iv, oi, g, st) ==
  LET top == DictOf([best_bid_price |-> bid, best_ask_price |-> ask,
                     mark_price |-> mark, last_price |-> last,
                     mark_iv |-> iv, bid_iv |-> Rot(iv), ask_iv |-> Rot(Rot(iv)),
                     open_interest |-> oi, underlying_price |-> Rot(oi),
                     underlying_index |-> Rot(Rot(oi))])
      greeks == IF g = 1 THEN DictOf([delta |-> None])
                ELSE IF g = 2 THEN GreeksDict(None)
                ELSE IF g = 3 THEN GreeksDict(Some(0))
                ELSE GreeksDict(Some(1))
      stats == IF st = 1 THEN DictOf([volume |-> None])
               ELSE IF st = 2 THEN DictOf([volume |-> Some(0)])
               ELSE DictOf([volume |-> Some(1)])
      keys == DOMAIN top \cup (IF g = 0 THEN {} ELSE {"greeks"})
                         \cup (IF st = 0 THEN {} ELSE {"stats"})
  IN  [k \in keys |-> IF k = "greeks" THEN greeks ELSE IF k = "stats" THEN stats ELSE top[k]]

Prices == {None, Some(0), Some(1), Some(2)}

\* the snapshots the assembler is checked on
AsmSnapshots ==
  {MkSnapshot(bid, ask, mark, last, iv, oi, g, st) :
     bid \in Prices, ask \in Prices, mark \in Opt3, last \in Opt3,
     iv \in Opt3, oi \in Opt3, g \in 0..4, st \in 0..3}

\* the snapshots the pipeline is run on
PipelineSnapshots == {MkSnapshot(Some(1), Some(2), Some(1), None, Some(1), Some(0), 4, 3)}

\* what get_orderbook returns: None after an exception, else the 'result'
OrderbookResults == {None, Some(DictOf([mark_price |-> None]))} \cup {Some(s) : s \in PipelineSnapshots}

\* the datetimes load_data is called with
DateArgs ==
  {None} \cup {Some([date |-> DateOf(n), tod |-> t]) : n \in 0..MaxLoadDay, t \in 0..1}

\* ------------------------------------------------------------------ state
VARIABLES
  today,        \* the collector's local clock: ordinal day of datetime.now()
  files,        \* data_dir: file name -> file
  pc,           \* periodic_collection: "start", "fetch", "save", "sleep", "done", "raised"
  iterations,   \* periodic_collection's argument
  i,            \* the loop variable of periodic_collection
  instruments,  \* collect_options_data: the discovered list
  idx,          \* collect_options_data: instruments already processed
  data,         \* collect_options_data: the records assembled so far
  discErr,      \* get_instruments took its except branch in this cycle
  fetched,      \* history: what get_orderbook returned, per call of this cycle
  calls,        \* history: get_orderbook calls of this cycle, per list position
  ret,          \* what the last save_to_parquet returned (None or the path)
  msg,          \* what the last save_to_parquet printed first
  active,       \* history: cycles whose body has begun and not yet ended
  written,      \* history: file name -> the batches save_to_parquet wrote to it
  loaded,       \* the last load_data call: arguments and result
  asmInstr,     \* record assembly on its own: the instrument
  asmSnap,      \* record assembly on its own: the snapshot
  asmRec        \* record assembly on its own: None, or the record built

vars ==
  <<today, files, pc, iterations, i, instruments, idx, data, discErr, fetched, calls,
    ret, msg, active, written, loaded, asmInstr, asmSnap, asmRec>>

cycleVars == <<instruments, idx, data, discErr, fetched, calls>>

saveVars == <<files, ret, msg, written>>

asmVars == <<asmInstr, asmSnap, asmRec>>

NotLoaded == [called |-> FALSE, start_date |-> None, end_date |-> None, order |-> <<>>,
              raised |-> FALSE, rows |-> <<>>]

\* a partition another collector left in the shared data_dir
ForeignFile == [currency |-> "ETH", date_str |-> Strftime(DateOf(1))]

ForeignRows ==
  <<Record([instrument_name |-> "ETH-C", expiration_timestamp |-> 7, strike |-> 3,
            option_type |-> "call"],
           DictOf([mark_price |-> Some(1)]), DateOf(1))>>

\* a collector just constructed, before periodic_collection's loop
InitCollector ==
  /\ today = 0
  /\ pc = "start"
  /\ i = 0
  /\ instruments = <<>>
  /\ idx = 0
  /\ data = <<>>
  /\ discErr = FALSE
  /\ fetched = <<>>
  /\ calls = <<>>
  /\ ret = None
  /\ msg = ""
  /\ active = {}
  /\ written = NoFiles
  /\ loaded = NotLoaded

InitPipeline ==
  /\ files = WriteFile(NoFiles, ForeignFile, File(ForeignRows))
  /\ InitCollector
  /\ iterations \in 1..MaxIter

InitAsmIdle ==
  /\ asmInstr = CHOOSE x \in Instruments : TRUE
  /\ asmSnap = DictOf([mark_price |-> Some(1)])
  /\ asmRec = None

Init == InitPipeline /\ InitAsmIdle

\* ---------------------------------------------------------------- actions
\* time passes: the local date changes at midnight
Tick ==
  /\ today < MaxDay
  /\ pc \notin {"done", "raised"}
  /\ today' = today + 1
  /\ UNCHANGED <<files, pc, iterations, i, cycleVars, ret, msg, active, written, loaded, asmVars>>

\* the loop body begins: cycle k is running
BeginCycle(act, k) == act \cup {k}

\* (a variant: the next pass begins without waiting for save_to_parquet)
EndCycleNever(act, k) == act

\* save_to_parquet has returned or raised: cycle k is over
EndCycle(act, k) == act \ {k}

\* collect_options_data up to the for loop: get_instruments
Discover ==
  /\ pc = "start"
  /\ \E failed \in BOOLEAN, result \in InstrumentLists :
       /\ failed => result = <<>>
       /\ discErr' = failed
       /\ instruments' = result
       /\ calls' = [k \in 1..Len(result) |-> 0]
  /\ idx' = 0
  /\ data' = <<>>
  /\ fetched' = <<>>
  /\ active' = BeginCycle(active, i)
  /\ pc' = "fetch"
  /\ UNCHANGED <<today, files, iterations, i, ret, msg, written, loaded, asmVars>>

\* `if orderbook:` on what get_orderbook returned
OrderbookTruthy(ob) == ob # None /\ DictTruthy(ob[1])

\* (a variant: the loop left at the first fetch without a snapshot)
NextIdxBreak(k, n, ob) == IF OrderbookTruthy(ob) THEN k + 1 ELSE n

\* where the for loop goes after instrument number k (0-based) of n
NextIdx(k, n, ob) == k + 1

\* one pass of the for loop of collect_options_data
FetchOne ==
  /\ pc = "fetch"
  /\ idx < Len(instruments)
  /\ \E ob \in OrderbookResults :
       /\ fetched' = Append(fetched, ob)
       /\ data' = IF OrderbookTruthy(ob)
                  THEN Append(data, Record(instruments[idx + 1], ob[1], DateOf(today)))
                  ELSE data
       /\ idx' = NextIdx(idx, Len(instruments), ob)
  /\ calls' = [calls EXCEPT ![idx + 1] = @ + 1]
  /\ UNCHANGED <<today, files, pc, iterations, i, instruments, discErr, ret, msg, active,
                 written, loaded, asmVars>>

\* the for loop is exhausted: df = pd.DataFrame(data); return df
Collected ==
  /\ pc = "fetch"
  /\ idx >= Len(instruments)
  /\ pc' = "save"
  /\ UNCHANGED <<today, files, iterations, i, cycleVars, ret, msg, active, written, loaded,
                 asmVars>>

\* periodic_collection after save_to_parquet returned: sleep, or leave the loop
AfterSave == IF i < iterations - 1 THEN "sleep" ELSE "done"

\* save_to_parquet on an empty frame
SaveNoData ==
  /\ pc = "save"
  /\ IsEmpty(data)
  /\ msg' = "No data to save"
  /\ ret' = None
  /\ active' = EndCycle(active, i)
  /\ pc' = AfterSave
  /\ UNCHANGED <<today, files, iterations, i, cycleVars, written, loaded, asmVars>>

\* save_to_parquet: the file is read (when it exists), merged and rewritten
SaveOk ==
  /\ pc = "save"
  /\ ~IsEmpty(data)
  /\ LET filename == GetDailyFilename(Currency, DateOf(today))
         exists == filename \in DOMAIN files
     IN  /\ exists => files[filename].readable
         /\ files' = WriteFile(files, filename,
                               File(IF exists THEN Merge(files[filename].rows, data) ELSE data))
         /\ msg' = IF exists THEN "Appended to existing file" ELSE "Created new file"
         /\ written' = WriteFile(written, filename,
                                 IF filename \in DOMAIN written
                                 THEN Append(written[filename], data) ELSE <<data>>)
         /\ ret' = Some(filename)
  /\ active' = EndCycle(active, i)
  /\ pc' = AfterSave
  /\ UNCHANGED <<today, iterations, i, cycleVars, loaded, asmVars>>

\* save_to_parquet: pd.read_parquet raises (always on an unreadable file)
SaveReadFail ==
  /\ pc = "save"
  /\ ~IsEmpty(data)
  /\ GetDailyFilename(Currency, DateOf(today)) \in DOMAIN files
  /\ active' = EndCycle(active, i)
  /\ pc' = "raised"
  /\ UNCHANGED <<today, iterations, i, cycleVars, saveVars, loaded, asmVars>>

\* save_to_parquet: df.to_parquet raises, before the file is opened for writing
\* (the file is as it was) or after (the file is truncated and unreadable)
SaveWriteFail ==
  /\ pc = "save"
  /\ ~IsEmpty(data)
  /\ LET filename == GetDailyFilename(Currency, DateOf(today))
         exists == filename \in DOMAIN files
     IN  /\ exists => files[filename].readable
         /\ \E opened \in BOOLEAN :
              files' = IF opened THEN WriteFile(files, filename, Corrupt) ELSE files
         /\ msg' = IF exists THEN "Appended to existing file" ELSE "Created new file"
  /\ active' = EndCycle(active, i)
  /\ pc' = "raised"
  /\ UNCHANGED <<today, iterations, i, cycleVars, ret, written, loaded, asmVars>>

\* time.sleep(interval_minutes * 60) returns and the loop takes its next value
Sleep ==
  /\ pc = "sleep"
  /\ i' = i + 1
  /\ pc' = "start"
  /\ UNCHANGED <<today, files, iterations, cycleVars, ret, msg, active, written, loaded,
                 asmVars>>

Next ==
  \/ Tick
  \/ Discover
  \/ FetchOne
  \/ Collected
  \/ SaveNoData
  \/ SaveOk
  \/ SaveReadFail
  \/ SaveWriteFail
  \/ Sleep

Spec == Init /\ [][Next]_vars

\* ------------------------------------------- record assembly on its own
InitAsm ==
  /\ files = NoFiles
  /\ InitCollector
  /\ iterations = 1
  /\ asmInstr \in Instruments
  /\ asmSnap \in AsmSnapshots
  /\ asmRec = None

\* the record literal applied to one (instrument, snapshot) pair
Assemble ==
  /\ asmRec = None
  /\ asmRec' = Some(Record(asmInstr, asmSnap, DateOf(today)))
  /\ UNCHANGED <<today, files, pc, iterations, i, cycleVars, ret, msg, active, written, loaded,
                 asmInstr, asmSnap>>

NextAsm == Assemble

SpecAsm == InitAsm /\ [][NextAsm]_vars

\* ------------------------------------------------------ load_data on its own
\* the rows one successful cycle of day n leaves in that day's partition
DayRows(n) ==
  <<Record(CHOOSE x \in Instruments : x.option_type = "call",
           CHOOSE x \in PipelineSnapshots : TRUE, DateOf(n))>>

\* the directories load_data is run on: per day no partition, a partition
\* written by save_to_parquet or one a failed rewrite left unreadable, with
\* or without the other collector's partition
LoadStores ==
  {[f \in {GetDailyFilename(Currency, DateOf(n)) : n \in DOMAIN st}
          \cup (IF foreign THEN {ForeignFile} ELSE {}) |->
      IF f = ForeignFile THEN File(ForeignRows)
      ELSE LET n == CHOOSE n \in DOMAIN st : GetDailyFilename(Currency, DateOf(n)) = f
           IN  IF st[n] THEN File(DayRows(n)) ELSE Corrupt] :
     st \in UNION {[D -> BOOLEAN] : D \in SUBSET (0..MaxLoadDay)}, foreign \in BOOLEAN}

InitLoad ==
  /\ files \in LoadStores
  /\ InitCollector
  /\ iterations = 1
  /\ InitAsmIdle

\* one call of load_data
Load ==
  /\ ~loaded.called
  /\ \E start_date \in DateArgs, end_date \in DateArgs, order \in Orders(Glob(files, Currency)) :
       LET r == LoadData(files, order, start_date, end_date)
       IN  loaded' = [called |-> TRUE, start_date |-> start_date, end_date |-> end_date,
                      order |-> order, raised |-> r.raised, rows |-> r.rows]
  /\ UNCHANGED <<today, files, pc, iterations, i, cycleVars, ret, msg, active, written, asmVars>>

NextLoad == Load

SpecLoad == InitLoad /\ [][NextLoad]_vars

\* ==================================================================== claims
\* what a snapshot holds under a key, read off the dict itself
Src(snap, k) == IF k \in DOMAIN snap THEN <<snap[k]>> ELSE <<>>

SrcNested(snap, outer, k) ==
  IF outer \in DOMAIN snap /\ k \in DOMAIN snap[outer] THEN <<snap[outer][k]>> ELSE <<>>

RECURSIVE SumLen(_)
SumLen(ss) == IF ss = <<>> THEN 0 ELSE Len(Head(ss)) + SumLen(Tail(ss))

\* the names of the instruments among the first Len(obs) whose fetch gave a snapshot
RECURSIVE NamesFetched(_, _)
NamesFetched(ins, obs) ==
  IF obs = <<>> THEN <<>>
  ELSE (IF OrderbookTruthy(Head(obs)) THEN <<Head(ins).instrument_name>> ELSE <<>>)
       \o NamesFetched(Tail(ins), Tail(obs))

NamesOf(rows) == [k \in 1..Len(rows) |-> rows[k].instrument_name]

\* C1: a partition written by save_to_parquet holds, in order, the batches
\* B1 .. Bn that were written to it, each in its own order, and
\* |B1| + ... + |Bn| rows: nothing lost, reordered or deduplicated.
C1_AppendConcatenates ==
  /\ \A f \in DOMAIN written :
       /\ f \in DOMAIN files
       /\ files[f].readable =>
            /\ files[f].rows = Flatten(written[f])
            /\ Len(files[f].rows) = SumLen(written[f])
  /\ \A f \in Glob(files, Currency) : files[f].readable => f \in DOMAIN written

C1_Witness ==
  \E f \in DOMAIN written :
    /\ Len(written[f]) >= 2
    /\ written[f][1] # written[f][2]
    /\ files[f].readable
    /\ files[f].rows = written[f][1] \o written[f][2]

\* C2: an append that fails with a storage error leaves every partition that
\* existed before the call with exactly the content it had.
C2_FailedAppendKeepsContent ==
  [][(pc = "save" /\ pc' = "raised")
     => \A f \in DOMAIN files : f \in DOMAIN files' /\ files'[f] = files[f]]_vars

\* C3: the periodic loop never ends before all of its cycles have run: a
\* failed discovery or a failed append aborts that cycle only.
C3_LaterCyclesStillRun == pc \in {"done", "raised"} => i = iterations - 1

\* C4: every record stored in the partition of day D carries a collection
\* timestamp of day D.
C4_RecordsOnPartitionDay ==
  \A f \in Glob(files, Currency) :
    \A k \in 1..Len(files[f].rows) : Strftime(files[f].rows[k].timestamp) = f.date_str

CopiedAsIs(rec, snap) ==
  /\ \A f \in PlainFields : rec[f] = Src(snap, f)
  /\ \A f \in GreekFields : rec[f] = SrcNested(snap, "greeks", f)
  /\ rec.volume_24h = SrcNested(snap, "stats", "volume")

C7_EveryInstrumentFetchedOnce ==
  /\ Len(fetched) <= Len(instruments)
  /\ \A k \in 1..Len(instruments) : calls[k] = (IF k <= Len(fetched) THEN 1 ELSE 0)
  /\ NamesOf(data) = NamesFetched(instruments, fetched)
  /\ Len(data) <= Len(instruments)
  /\ pc # "fetch" => Len(fetched) = Len(instruments)

C7_Witness ==
  /\ pc = "save"
  /\ Len(instruments) = 2
  /\ fetched[1] = None
  /\ OrderbookTruthy(fetched[2])
  /\ NamesOf(data) = <<instruments[2].instrument_name>>

\* the rows the partitions dated within [start_date's day, end_date's day]
\* hold, days ascending from day n on
RECURSIVE RowsInRange(_, _, _, _)
RowsInRange(dir, n, start_date, end_date) ==
  IF n > MaxLoadDay THEN <<>>
  ELSE LET f == GetDailyFilename(Currency, DateOf(n))
           d == [date |-> DateOf(n), tod |-> 0]
           lo == start_date = None \/ ~DtLess(d, [date |-> start_date[1].date, tod |-> 0])
           hi == end_date = None \/ ~DtLess([date |-> end_date[1].date, tod |-> 0], d)
       IN  (IF f \in DOMAIN dir /\ lo /\ hi THEN dir[f].rows ELSE <<>>)
           \o RowsInRange(dir, n + 1, start_date, end_date)

\* C8: load_data returns the rows of exactly the partitions of its currency
\* dated from start_date's day to end_date's day, both days included, in
\* ascending date order.
C8_LoadInclusiveRange ==
  (loaded.called /\ ~loaded.raised) =>
    loaded.rows = RowsInRange(files, 0, loaded.start_date, loaded.end_date)

\* the same for a start_date at midnight
LoadInclusiveFromMidnight ==
  (loaded.called /\ ~loaded.raised
     /\ (loaded.start_date # None => loaded.start_date[1].tod = 0)) =>
    loaded.rows = RowsInRange(files, 0, loaded.start_date, loaded.end_date)

\* C9: at most one cycle is running at any time; a cycle is running only
\* while its own loop body is, and none is between cycles or after the loop.
C9_CyclesNeverOverlap ==
  /\ Cardinality(active) <= 1
  /\ pc \in {"fetch", "save"} => active = {i}
  /\ pc \in {"start", "sleep", "done", "raised"} => active = {}

C9_Witness == pc = "fetch" /\ i >= 1 /\ active = {i} /\ idx >= 1

\* C10: save_to_parquet on an empty batch (as after a discovery that found
\* nothing or a cycle whose fetches all failed) returns None without raising
\* and leaves every file of the store as it was, creating none.
C10_EmptyBatchChangesNothing ==
  [][(/\ pc = "save"
      /\ pc' # "save"
      /\ \/ data = <<>>
         \/ \A k \in 1..Len(fetched) : ~OrderbookTruthy(fetched[k]))
     => (files' = files /\ ret' = None /\ pc' # "raised")]_vars

C10_Witness ==
  /\ pc \in {"sleep", "done"}
  /\ msg = "No data to save"
  /\ ret = None
  /\ Len(instruments) >= 1
  /\ data = <<>>
  /\ Glob(files, Currency) # {}

====
